---- MODULE Spec2Model ----
(***************************************************************************)
(* Model of frappe/query_builder/terms.py: the parameter store             *)
(* (NamedParameterWrapper), the value serializer                           *)
(* (ParameterizedValueWrapper.get_sql), the function and subquery          *)
(* serializers and the Oracle conversion routine                           *)
(* (conversion_column_value).                                              *)
(*                                                                         *)
(* Python str values are modelled as sequences of one-character strings,   *)
(* so that quoting, escaping, prefix tests, slicing and the regular        *)
(* expressions are computed character by character as the code does.       *)
(***************************************************************************)
EXTENDS Integers, Sequences, FiniteSets, TLC

\* ------------------------------------------------------------------ bounds

\* Longest text over the alphabet {a, '} that is enumerated as an input.
MaxLen == 3

\* Most bindings one store receives in a behaviour.
MaxParams == 3

\* Most renders of one wrapper in a behaviour.
MaxRenders == 2

\* ------------------------------------------------------------ text helpers

Q == "'"

NL == "\n"

Digits == <<"0", "1", "2", "3", "4", "5", "6", "7", "8", "9">>

IsDigit(c) == \E i \in 1..10 : Digits[i] = c

RECURSIVE NatToStr(_)
\* str(n) / f"{n}" for a non-negative int
NatToStr(n) ==
    IF n < 10 THEN <<Digits[n + 1]>>
    ELSE NatToStr(n \div 10) \o <<Digits[(n % 10) + 1]>>

\* str(n) for an int
IntToStr(n) == IF n < 0 THEN <<"-">> \o NatToStr(-n) ELSE NatToStr(n)

\* "{:02}".format(n)
Pad2(n) == IF n < 10 THEN <<"0">> \o NatToStr(n) ELSE NatToStr(n)

\* "%06d" % n, the microsecond field
Pad6(n) ==
    LET d == NatToStr(n)
    IN  [i \in 1..(6 - Len(d)) |-> "0"] \o d

\* s.startswith(p)
StartsWith(s, p) == Len(s) >= Len(p) /\ SubSeq(s, 1, Len(p)) = p

RECURSIVE Replace(_, _)
\* s.replace(q, q * 2) for a one-character q; with q = "" (given as <<>>,
\* the library's default when no secondary quote character is passed) the
\* text is returned as it is.
Replace(s, q) ==
    IF q = <<>> \/ s = <<>> THEN s
    ELSE IF Head(s) = q[1] THEN <<q[1], q[1]>> \o Replace(Tail(s), q)
         ELSE <<Head(s)>> \o Replace(Tail(s), q)

\* pypika.utils.format_quotes: "{quote}{value}{quote}".format(quote=q or "")
format_quotes(s, q) == q \o s \o q

TO_TIMESTAMP == <<"t", "o", "_", "t", "i", "m", "e", "s", "t", "a", "m", "p">>

TO_DATE == <<"t", "o", "_", "d", "a", "t", "e">>

FMT_DATE == <<"y", "y", "y", "y", "-", "m", "m", "-", "d", "d">>

FMT_TS == FMT_DATE \o <<" ", "h", "h", "2", "4", ":", "m", "i", ":", "s", "s">>

FMT_TS6 == FMT_TS \o <<".", "f", "f", "6">>

\* f"{fn}('{value}', '{fmt}')"
ConstructorCall(fn, value, fmt) ==
    fn \o <<"(", Q>> \o value \o <<Q, ",", " ", Q>> \o fmt \o <<Q, ")">>

\* ------------------------------------------------------------------ values

\* A Python value held by a wrapper: kind is the Python type, s the text of a
\* str, n the number of an int (1/0 of a bool) or the whole seconds of a
\* timedelta / time / datetime, us its microseconds.
StrV(s) == [kind |-> "str", s |-> s, n |-> 0, us |-> 0]

IntV(n) == [kind |-> "int", s |-> <<>>, n |-> n, us |-> 0]

BoolV(b) == [kind |-> "bool", s |-> <<>>, n |-> IF b THEN 1 ELSE 0, us |-> 0]

NoneV == [kind |-> "none", s |-> <<>>, n |-> 0, us |-> 0]

TemporalV(k, n, us) == [kind |-> k, s |-> <<>>, n |-> n, us |-> us]

\* What a call gives back: the returned text, or the exception it raised.
Returned(s) == [raised |-> FALSE, s |-> s]

IndexError == [raised |-> TRUE, s |-> <<"I", "n", "d", "e", "x", "E", "r", "r", "o", "r">>]

\* ---------------------------------------------------- temporal formatters

\* "HH:MM:SS" with ".ffffff" only when the fraction is not zero
ClockText(n, us) ==
    Pad2(n \div 3600) \o <<":">> \o Pad2((n % 3600) \div 60) \o <<":">> \o Pad2(n % 60)
        \o (IF us = 0 THEN <<>> ELSE <<".">> \o Pad6(us))

\* frappe.utils.data.format_timedelta
format_timedelta(v) == ClockText(v.n, v.us)

\* frappe.utils.data.format_time
format_time(v) == ClockText(v.n, v.us)

\* frappe.db.format_datetime: the connection's "%Y-%m-%d %H:%M:%S.%f" form
\* (every modelled datetime lies on 2024-01-15)
format_datetime(v) ==
    <<"2", "0", "2", "4", "-", "0", "1", "-", "1", "5", " ">>
        \o Pad2(v.n \div 3600) \o <<":">> \o Pad2((v.n % 3600) \div 60) \o <<":">>
        \o Pad2(v.n % 60) \o <<".">> \o Pad6(v.us)

\* ------------------------------------------------------ library rendering

\* pypika ValueWrapper.get_value_sql -> get_formatted_value(value, **kwargs):
\* quote_char = kwargs.get("secondary_quote_char") or ""; a str has that
\* character doubled and is wrapped in it, a bool is lower-cased, None is
\* "null", anything else is str(value).  sq is <<>> when the caller passes no
\* secondary_quote_char.
get_value_sql(v, sq) ==
    CASE v.kind = "str"  -> format_quotes(Replace(v.s, sq), sq)
      [] v.kind = "bool" -> IF v.n = 1 THEN <<"t", "r", "u", "e">>
                                       ELSE <<"f", "a", "l", "s", "e">>
      [] v.kind = "none" -> <<"n", "u", "l", "l">>
      [] v.kind = "int"  -> IntToStr(v.n)
      [] OTHER           -> ClockText(v.n, v.us)

\* pypika.utils.format_alias_sql(sql, alias, quote_char): alias is <<>> for
\* None and <<name>> otherwise; quote_char is <<>> for None.
format_alias_sql(sql, alias, quote_char) ==
    IF alias = <<>> THEN sql
    ELSE sql \o <<" ">> \o format_quotes(alias[1], quote_char)

\* ------------------------------------------------- conversion_column_value

PAT_DATE == <<"d", "d", "d", "d", "-", "d", "d", "-", "d", "d">>

PAT_TS == PAT_DATE \o <<" ", "d", "d", ":", "d", "d", ":", "d", "d">>

\* The pattern's fixed part matches at the start of s ("d" stands for \d).
MatchAt(s, pat) ==
    /\ Len(s) >= Len(pat)
    /\ \A i \in 1..Len(pat) : IF pat[i] = "d" THEN IsDigit(s[i]) ELSE s[i] = pat[i]

\* Python's "$" after n characters: the end of the text, or just before a
\* newline that ends the text.
AtEnd(s, n) == Len(s) = n \/ (Len(s) = n + 1 /\ s[n + 1] = NL)

\* re.search('^\d{4}-\d{2}-\d{2} \d{2}:\d{2}:\d{2}\.\d+$', s)
re_search_ts_frac(s) ==
    /\ MatchAt(s, PAT_TS \o <<".">>)
    /\ \E k \in 1..(Len(s) - 20) :
          /\ \A i \in 21..(20 + k) : IsDigit(s[i])
          /\ AtEnd(s, 20 + k)

\* re.search('^\d{4}-\d{2}-\d{2} \d{2}:\d{2}:\d{2}$', s)
re_search_ts(s) == MatchAt(s, PAT_TS) /\ AtEnd(s, Len(PAT_TS))

\* re.search('^\d{4}-\d{2}-\d{2}$', s)
re_search_date(s) == MatchAt(s, PAT_DATE) /\ AtEnd(s, Len(PAT_DATE))

\* value[1:-1]
StripOuter(s) == SubSeq(s, 2, Len(s) - 1)

\* value[0] == "'" and value[-1] == "'" (value is not empty here)
QuoteDelimited(s) == s[1] = Q /\ s[Len(s)] = Q

\* The str branch after the empty test and the stripping: value is the text
\* the regular expressions see.
ConvertText(value, convert_to_date) ==
    IF convert_to_date /\ re_search_ts_frac(value)
        THEN Returned(ConstructorCall(TO_TIMESTAMP, value, FMT_TS6))
    ELSE IF convert_to_date /\ re_search_ts(value)
        THEN Returned(ConstructorCall(TO_TIMESTAMP, value, FMT_TS))
    ELSE IF convert_to_date /\ re_search_date(value)
        THEN Returned(ConstructorCall(TO_DATE, value, FMT_DATE))
    ELSE IF value = <<>>
        THEN IndexError                      \* value[0] of an empty str
    ELSE IF value[1] # Q \/ value[Len(value)] # Q
        THEN Returned(<<Q>> \o Replace(value, <<Q>>) \o <<Q>>)
    ELSE Returned(value)

conversion_column_value(v, convert_to_date) ==
    CASE v.kind = "str" ->
            IF v.s = <<>> THEN Returned(<<Q, Q>>)
            ELSE ConvertText(IF QuoteDelimited(v.s) THEN StripOuter(v.s) ELSE v.s,
                             convert_to_date)
      [] v.kind = "none" -> Returned(<<"N", "U", "L", "L">>)
      [] v.kind = "bool" -> Returned(IF v.n = 1 THEN <<"T", "r", "u", "e">>
                                              ELSE <<"F", "a", "l", "s", "e">>)
      [] v.kind = "int"  -> Returned(IntToStr(v.n))
      [] OTHER           -> Returned(ClockText(v.n, v.us))

\* --------------------------------------------------- NamedParameterWrapper

\* The parameters dict: a Python dict keeps insertion order, so it is a
\* sequence of [key, val] entries with distinct keys.
\* d[k] = v: a new key is appended, an existing key is overwritten in place
DictSet(d, k, v) ==
    IF \E i \in 1..Len(d) : d[i].key = k
    THEN [i \in 1..Len(d) |-> IF d[i].key = k THEN [key |-> k, val |-> v] ELSE d[i]]
    ELSE Append(d, [key |-> k, val |-> v])

PARAM == <<"p", "a", "r", "a", "m">>

\* f"%(param{n})s"
Placeholder(n) == <<"%", "(">> \o PARAM \o NatToStr(n) \o <<")", "s">>

\* The key numbered from the entries present, not from the next one:
\* f"%(param{len(self.parameters)})s"
NextParamKey_NotIncremented(params) == Placeholder(Len(params))

\* f"%(param{len(self.parameters) + 1})s"
NextParamKey(params) == Placeholder(Len(params) + 1)

\* self.parameters[param_key[2:-2]] = param_value; return param_key
StoreUnder(params, param_key, param_value) ==
    [sql        |-> param_key,
     parameters |-> DictSet(params, SubSeq(param_key, 3, Len(param_key) - 2), param_value)]

\* NamedParameterWrapper.get_sql: the placeholder returned and the dict after
NamedParameterWrapper_get_sql(params, param_value) ==
    StoreUnder(params, NextParamKey(params), param_value)

\* ----------------------------------------------- ParameterizedValueWrapper

\* The default of get_sql's secondary_quote_char argument
secondary_quote_char == <<Q>>

\* What one get_sql call leaves: the text returned (or the exception), the
\* wrapper's self.value after it and the store after it.
Out(sql, v, params) == [raised |-> FALSE, s |-> sql, value |-> v, parameters |-> params]

IsTemporalKind(v) == v.kind \in {"timedelta", "time", "datetime"}

\* The three isinstance branches that format self.value
FormatTemporal(v) ==
    CASE v.kind = "timedelta" -> format_timedelta(v)
      [] v.kind = "time"      -> format_time(v)
      [] OTHER                -> format_datetime(v)

\* After self.value = <formatted text>: the early return of the Oracle
\* dialect, or the library's literal with the alias
AfterFormat(formatted, al, qc, params, oracle) ==
    IF oracle
    THEN Out(ConstructorCall(TO_TIMESTAMP, formatted.s, FMT_TS6), formatted, params)
    ELSE Out(format_alias_sql(get_value_sql(formatted, secondary_quote_char), al, qc),
             formatted, params)

\* self.value = conversion_column_value(self.value); return self.value
\* (r is what the conversion gave; when it raised, nothing was assigned)
AfterConversion(r, v, params) ==
    IF r.raised
    THEN [raised |-> TRUE, s |-> r.s, value |-> v, parameters |-> params]
    ELSE Out(r.s, StrV(r.s), params)

\* The else branch of get_sql
LiteralBranch(v, al, qc, params, oracle) ==
    IF IsTemporalKind(v)
    THEN AfterFormat(StrV(FormatTemporal(v)), al, qc, params, oracle)
    ELSE IF oracle
    THEN AfterConversion(conversion_column_value(v, TRUE), v, params)
    ELSE Out(format_alias_sql(get_value_sql(v, secondary_quote_char), al, qc), v, params)

\* The prefix test of the branch taken when a param_wrapper is given
IsRawWhenBinding(s) == StartsWith(s, TO_TIMESTAMP)

\* The prefix test of the branch taken when no param_wrapper is given
IsRawLiteral(s) == StartsWith(s, TO_TIMESTAMP) \/ StartsWith(s, TO_DATE)

\* sql = param_wrapper.get_sql(param_value=value_sql) and the alias after it
\* (b is what the store's get_sql gave)
AfterBinding(b, v, al, qc) == Out(format_alias_sql(b.sql, al, qc), v, b.parameters)

\* ParameterizedValueWrapper.get_sql(quote_char=qc, param_wrapper=...): pw
\* says whether a param_wrapper is given, params is its dict.  The value
\* bound is self.get_value_sql(quote_char=quote_char, **kwargs): no
\* secondary_quote_char reaches the library there.
ValueWrapper_get_sql(v, al, qc, pw, params, oracle) ==
    IF pw /\ v.kind = "str"
    THEN IF IsRawWhenBinding(v.s)
         THEN Out(format_alias_sql(v.s, al, qc), v, params)
         ELSE AfterBinding(NamedParameterWrapper_get_sql(params, get_value_sql(v, <<>>)),
                           v, al, qc)
    ELSE IF v.kind = "str" /\ IsRawLiteral(v.s)
    THEN Out(format_alias_sql(v.s, al, qc), v, params)
    ELSE LiteralBranch(v, al, qc, params, oracle)

\* ------------------------------------------ functions and nested queries

\* One term of the join: the text so far, r, extended by the next term's
\* get_sql, which sees the store as the terms before it left it; values are
\* the payloads the rendered wrappers are left with.
JoinTerm(r, h) ==
    [raised     |-> h.raised,
     s          |-> IF h.raised THEN h.s
                    ELSE IF r.n = 0 THEN h.s ELSE r.s \o <<",">> \o h.s,
     parameters |-> h.parameters,
     n          |-> r.n + 1,
     values     |-> Append(r.values, h.value)]

RenderTerm(r, term, qc, pw, oracle) ==
    JoinTerm(r, ValueWrapper_get_sql(term, <<>>, qc, pw, r.parameters, oracle))

RECURSIVE RenderFrom(_, _, _, _, _)
RenderFrom(r, terms, qc, pw, oracle) ==
    IF terms = <<>> \/ r.raised THEN r
    ELSE RenderFrom(RenderTerm(r, Head(terms), qc, pw, oracle), Tail(terms), qc, pw, oracle)

\* ",".join(term.get_sql(**kwargs) for term in terms): the library renders
\* the terms left to right, handing every one the same keyword arguments.
RenderTerms(terms, qc, pw, params, oracle) ==
    RenderFrom([raised |-> FALSE, s |-> <<>>, parameters |-> params, n |-> 0,
                values |-> <<>>],
               terms, qc, pw, oracle)

FN_NAME == <<"f">>

\* pypika Function.get_function_sql: "{name}({args})"
FunctionCall(r) ==
    IF r.raised THEN r ELSE [r EXCEPT !.s = FN_NAME \o <<"(">> \o r.s \o <<")">>]

get_function_sql(args, qc, pw, params, oracle) ==
    FunctionCall(RenderTerms(args, qc, pw, params, oracle))

\* if with_alias: return format_alias_sql(function_sql, self.alias, ...)
WithAlias(r, al, with_alias, qc) ==
    IF r.raised \/ ~with_alias THEN r ELSE [r EXCEPT !.s = format_alias_sql(r.s, al, qc)]

\* The library's own Function.get_sql, which the class replaces: it hands
\* get_function_sql no param_wrapper
Function_get_sql_Unpatched(args, al, with_alias, qc, pw, params, oracle) ==
    WithAlias(get_function_sql(args, qc, FALSE, params, oracle), al, with_alias, qc)

\* ParameterizedFunction.get_sql for a function without schema: param_wrapper
\* is popped from kwargs and handed on to get_function_sql; the alias is
\* formatted only with with_alias.
ParameterizedFunction_get_sql(args, al, with_alias, qc, pw, params, oracle) ==
    WithAlias(get_function_sql(args, qc, pw, params, oracle), al, with_alias, qc)

SELECT == <<"S", "E", "L", "E", "C", "T", " ">>

\* pypika QueryBuilder.get_sql(subquery=..., **kwargs) of a query selecting
\* the given value terms: parenthesised when it is a subquery
QueryText(r, subquery) ==
    IF r.raised THEN r
    ELSE [r EXCEPT !.s = IF subquery THEN <<"(">> \o SELECT \o r.s \o <<")">>
                                     ELSE SELECT \o r.s]

QueryBuilder_get_sql(terms, subquery, qc, pw, params, oracle) ==
    QueryText(RenderTerms(terms, qc, pw, params, oracle), subquery)

\* SubQuery.get_sql(**kwg): kwg["subquery"] = True; self.subq.get_sql(**kwg)
SubQuery_get_sql(terms, qc, pw, params, oracle) ==
    QueryBuilder_get_sql(terms, TRUE, qc, pw, params, oracle)

\* ------------------------------------------------------------------ inputs

\* Longest argument list of a function call and longest term list of a
\* nested query.
MaxArgs == 3

\* Every text of at most MaxLen characters over the alphabet {a, '}
QuoteTexts == UNION {[1..k -> {"a", Q}] : k \in 0..MaxLen}

DATE_TEXT == <<"2", "0", "2", "4", "-", "0", "1", "-", "1", "5">>

CLOCK_TEXT == <<" ", "1", "0", ":", "3", "0", ":", "0", "0">>

FRACTION_TEXT == <<".", "1", "2", "3", "4", "5", "6">>

\* The three temporal shapes
TemporalTexts ==
    {DATE_TEXT, DATE_TEXT \o CLOCK_TEXT, DATE_TEXT \o CLOCK_TEXT \o FRACTION_TEXT}

\* Texts one edit away from a temporal shape
NearTemporalTexts ==
    {SubSeq(DATE_TEXT, 1, 9), <<"x">> \o DATE_TEXT, DATE_TEXT \o <<"a">>,
     DATE_TEXT \o <<" ">>, DATE_TEXT \o SubSeq(CLOCK_TEXT, 1, 6),
     DATE_TEXT \o CLOCK_TEXT \o <<".">>, DATE_TEXT \o CLOCK_TEXT \o <<".", "x">>,
     DATE_TEXT \o CLOCK_TEXT \o FRACTION_TEXT \o <<"a">>,
     <<"2", "0", "2", "4", "/", "0", "1", "/", "1", "5">>}

\* Each of them bare, inside outer quotes, and followed by a line feed
ShapedTexts ==
    LET base == TemporalTexts \cup NearTemporalTexts
    IN  base \cup {<<Q>> \o s \o <<Q>> : s \in base} \cup {s \o <<NL>> : s \in base}

\* Texts that are already constructor calls
RawTexts ==
    {ConstructorCall(TO_DATE, DATE_TEXT, FMT_DATE),
     ConstructorCall(TO_TIMESTAMP, DATE_TEXT \o CLOCK_TEXT, FMT_TS),
     TO_DATE, TO_TIMESTAMP}

Numbers == {IntV(0), IntV(42), IntV(-7)}

TemporalValues ==
    {TemporalV("timedelta", 37800, 0), TemporalV("timedelta", 5, 500000),
     TemporalV("time", 37800, 0), TemporalV("datetime", 37800, 123456)}

\* The arguments of conversion_column_value
ConvInputs ==
    {StrV(s) : s \in QuoteTexts \cup ShapedTexts \cup RawTexts}
        \cup Numbers \cup {BoolV(TRUE), BoolV(FALSE), NoneV}

\* The payloads a ParameterizedValueWrapper is constructed with
Values ==
    {StrV(s) : s \in QuoteTexts \cup TemporalTexts \cup RawTexts
                        \cup {DATE_TEXT \o <<NL>>, <<Q>> \o DATE_TEXT \o <<Q>>}}
        \cup Numbers \cup {BoolV(TRUE), NoneV} \cup TemporalValues

Aliases == {<<>>, <<<<"x">>>>}

QuoteChars == {<<>>, <<"\"">>}

\* The values handed to the store directly
BindTexts == {<<"a">>, <<Q, "b", Q>>}

\* The arguments of a function call and the terms of a nested query:
ArgValues == {StrV(<<"a">>), StrV(<<"b", Q>>), IntV(42)}

\* two arguments in every combination, the same value twice included; longer
\* lists hold each value once
ArgLists ==
    {a \in UNION {[1..k -> ArgValues] : k \in 1..MaxArgs} :
        Len(a) = 2 \/ \A i, j \in 1..Len(a) : a[i] = a[j] => i = j}

\* ------------------------------------------------------------------- state

VARIABLES
    parameters,   \* NamedParameterWrapper.parameters of the statement's store
    value,        \* ParameterizedValueWrapper.value (self.value)
    alias,        \* the wrapper's alias: <<>> for None, <<name>> otherwise
    is_oracledb,  \* frappe.is_oracledb
    result,       \* what the last call returned, or the exception it raised
    op,           \* the last call
    call,         \* the last call's arguments and the store it found
    init_value,   \* the payload the wrapper was constructed with
    renders,      \* get_sql calls on the wrapper (or on the terms) so far
    first_sql,    \* per quote_char, the first literal render of the wrapper
    terms         \* the payloads of the value wrappers that are a function's
                  \* arguments and a nested query's terms

vars == <<parameters, value, alias, is_oracledb, result, op, call, init_value,
          renders, first_sql, terms>>

NoResult == Returned(<<>>)

NoCall == [value |-> NoneV, pw |-> FALSE, qc |-> <<>>, params |-> <<>>,
           args |-> <<>>, flag |-> FALSE, alias |-> <<>>]

\* The state after NamedParameterWrapper() and ParameterizedValueWrapper(v, a)
Constructed(v, a) ==
    /\ parameters = <<>>
    /\ value = v
    /\ alias = a
    /\ init_value = v
    /\ result = NoResult
    /\ op = "construct"
    /\ call = NoCall
    /\ renders = 0
    /\ first_sql = [qc \in QuoteChars |-> <<>>]
    /\ terms = <<>>

Init ==
    /\ is_oracledb \in BOOLEAN
    /\ \E v \in Values, a \in Aliases : Constructed(v, a)

\* A new statement: a fresh store and a fresh wrapper
NewStatement(v, a) ==
    /\ parameters' = <<>>
    /\ value' = v
    /\ alias' = a
    /\ init_value' = v
    /\ result' = NoResult
    /\ op' = "construct"
    /\ call' = NoCall
    /\ renders' = 0
    /\ first_sql' = [qc \in QuoteChars |-> <<>>]
    /\ UNCHANGED <<is_oracledb, terms>>

\* A get_sql call that gave r leaves its text, the wrapper's value and the
\* store; the first literal render per quote_char is remembered.
Rendered(r, pw, qc) ==
    /\ result' = [raised |-> r.raised, s |-> r.s]
    /\ value' = r.value
    /\ parameters' = r.parameters
    /\ first_sql' = IF ~pw /\ first_sql[qc] = <<>>
                    THEN [first_sql EXCEPT ![qc] = <<[raised |-> r.raised, s |-> r.s]>>]
                    ELSE first_sql

\* self.get_sql(quote_char=qc) or self.get_sql(quote_char=qc, param_wrapper=store)
Render(pw, qc) ==
    /\ renders < MaxRenders
    /\ Rendered(ValueWrapper_get_sql(value, alias, qc, pw, parameters, is_oracledb), pw, qc)
    /\ op' = "render"
    /\ call' = [NoCall EXCEPT !.value = value, !.pw = pw, !.qc = qc,
                              !.params = parameters, !.alias = alias]
    /\ renders' = renders + 1
    /\ UNCHANGED <<alias, is_oracledb, init_value, terms>>

Next ==
    \/ \E v \in Values, a \in Aliases : NewStatement(v, a)
    \/ \E pw \in BOOLEAN, qc \in QuoteChars : Render(pw, qc)

Spec == Init /\ [][Next]_vars

\* ---------------------------------------------- the store under composition

InitStore ==
    /\ is_oracledb \in BOOLEAN
    /\ Constructed(NoneV, <<>>)

\* A call that returned r leaves its text (or its exception) as the result,
\* its store as the store, and the wrappers it rendered with their payloads;
\* after an exception the wrappers it did not reach are as they were.
Leaves(r) ==
    /\ result' = [raised |-> r.raised, s |-> r.s]
    /\ parameters' = r.parameters
    /\ terms' = [i \in 1..Len(terms) |->
                    IF i <= Len(r.values) THEN r.values[i] ELSE terms[i]]

\* NamedParameterWrapper(): the store of a new statement
NewStore ==
    /\ parameters' = <<>>
    /\ op' = "new_store"
    /\ call' = NoCall
    /\ result' = NoResult
    /\ UNCHANGED <<value, alias, is_oracledb, init_value, renders, first_sql, terms>>

\* ParameterizedFunction(name, *args) and SubQuery(query over args): the
\* value wrappers of the arguments are constructed
NewTerms(args) ==
    /\ terms' = args
    /\ renders' = 0
    /\ op' = "new_terms"
    /\ call' = NoCall
    /\ result' = NoResult
    /\ UNCHANGED <<parameters, value, alias, is_oracledb, init_value, first_sql>>

\* The store's get_sql gave b: its placeholder is the result, its dict the store
Bound(b) ==
    /\ result' = Returned(b.sql)
    /\ parameters' = b.parameters

\* store.get_sql(param_value=s)
Bind(s) ==
    /\ Len(parameters) < MaxParams
    /\ Bound(NamedParameterWrapper_get_sql(parameters, s))
    /\ op' = "bind"
    /\ call' = [NoCall EXCEPT !.value = StrV(s), !.pw = TRUE, !.params = parameters]
    /\ UNCHANGED <<value, alias, is_oracledb, init_value, renders, first_sql, terms>>

\* function.get_sql(with_alias=..., quote_char=qc [, param_wrapper=store])
FunctionGetSql(al, with_alias, qc, pw) ==
    /\ terms # <<>>
    /\ renders < MaxRenders
    /\ Len(parameters) + Len(terms) <= MaxParams
    /\ Leaves(ParameterizedFunction_get_sql(terms, al, with_alias, qc, pw,
                                            parameters, is_oracledb))
    /\ op' = "function"
    /\ call' = [NoCall EXCEPT !.args = terms, !.pw = pw, !.qc = qc,
                              !.params = parameters, !.alias = al, !.flag = with_alias]
    /\ renders' = renders + 1
    /\ UNCHANGED <<value, alias, is_oracledb, init_value, first_sql>>

\* subquery.get_sql(quote_char=qc [, param_wrapper=store])
SubQueryGetSql(qc, pw) ==
    /\ terms # <<>>
    /\ renders < MaxRenders
    /\ Len(parameters) + Len(terms) <= MaxParams
    /\ Leaves(SubQuery_get_sql(terms, qc, pw, parameters, is_oracledb))
    /\ op' = "subquery"
    /\ call' = [NoCall EXCEPT !.args = terms, !.pw = pw, !.qc = qc,
                              !.params = parameters]
    /\ renders' = renders + 1
    /\ UNCHANGED <<value, alias, is_oracledb, init_value, first_sql>>

NextStore ==
    \/ NewStore
    \/ \E args \in ArgLists : NewTerms(args)
    \/ \E s \in BindTexts : Bind(s)
    \/ \E wa \in BOOLEAN, pw \in BOOLEAN : FunctionGetSql(<<<<"x">>>>, wa, <<>>, pw)
    \/ \E pw \in BOOLEAN : SubQueryGetSql(<<>>, pw)

SpecStore == InitStore /\ [][NextStore]_vars

\* ------------------------------------------------- the conversion routine

InitConv ==
    /\ is_oracledb = TRUE
    /\ Constructed(NoneV, <<>>)

\* conversion_column_value(v, convert_to_date)
Convert(v, convert_to_date) ==
    /\ result' = conversion_column_value(v, convert_to_date)
    /\ op' = "convert"
    /\ call' = [NoCall EXCEPT !.value = v, !.flag = convert_to_date]
    /\ UNCHANGED <<parameters, value, alias, is_oracledb, init_value, renders, first_sql,
                   terms>>

NextConv == \E v \in ConvInputs, f \in BOOLEAN : Convert(v, f)

SpecConv == InitConv /\ [][NextConv]_vars

\* ------------------------------------------------------------- properties

\* The name of the i-th parameter
ParamName(i) == PARAM \o NatToStr(i)

\* The placeholder that names the i-th parameter
PlaceholderFor(i) == <<"%", "(">> \o ParamName(i) \o <<")", "s">>

\* s is an initial part of t
IsPrefix(s, t) == Len(s) <= Len(t) /\ \A i \in 1..Len(s) : t[i] = s[i]

RECURSIVE Doubled(_)
\* s with every single quote written twice
Doubled(s) ==
    IF s = <<>> THEN <<>>
    ELSE (IF Head(s) = Q THEN <<Q, Q>> ELSE <<Head(s)>>) \o Doubled(Tail(s))

\* The SQL string literal of s
QuoteLiteral(s) == <<Q>> \o Doubled(s) \o <<Q>>

RECURSIVE Undoubled(_)
\* s with every pair of single quotes read as one
Undoubled(s) ==
    IF s = <<>> THEN <<>>
    ELSE IF Len(s) >= 2 /\ s[1] = Q /\ s[2] = Q THEN <<Q>> \o Undoubled(SubSeq(s, 3, Len(s)))
    ELSE <<Head(s)>> \o Undoubled(Tail(s))

\* Reading a SQL string literal back: the outer quotes removed, the quotes
\* inside un-doubled
Unquote(t) == Undoubled(SubSeq(t, 2, Len(t) - 1))

\* A text that is pre-rendered SQL: it begins with the timestamp or the date
\* constructor
IsPreRendered(s) == IsPrefix(TO_TIMESTAMP, s) \/ IsPrefix(TO_DATE, s)

\* The last call rendered the wrapper
DidRender == op = "render"

\* The terms of the last call that are ordinary texts, in their order
BoundTerms == SelectSeq(call.args, LAMBDA a : a.kind = "str" /\ ~IsPreRendered(a.s))

\* C1: after k binds on one store the keys are exactly param1..paramk in
\* insertion order, without gap or repeat, the store has k entries and every
\* key maps to the value it was first bound with: the keys of every reachable
\* store are param1..paramLen, and a bind appends exactly one entry, under the
\* next key and holding the value given, to the entries that were there, which
\* it leaves as they were, and returns the placeholder of that key.
C1_StoreNumbering ==
    /\ \A i \in 1..Len(parameters) : parameters[i].key = ParamName(i)
    /\ op = "new_store" => parameters = <<>>
    /\ op = "bind" =>
          /\ parameters = Append(call.params,
                                 [key |-> ParamName(Len(call.params) + 1),
                                  val |-> call.value.s])
          /\ result = Returned(PlaceholderFor(Len(parameters)))

\* C1's case: a third bind on a store
C1_Witness ==
    /\ op = "bind"
    /\ Len(parameters) = 3
    /\ parameters[1].val = <<Q, "b", Q>>
    /\ parameters[2].val = <<"a">>
    /\ parameters[3].val = <<Q, "b", Q>>

\* C2: a function call or a subquery rendered with the statement's store
\* after the statement bound j parameters leaves the j entries as they were
\* and binds its ordinary text terms, left to right, under param(j+1),
\* param(j+2), ... of that same store.
C2_CompositionOrder ==
    (op \in {"function", "subquery"} /\ call.pw /\ ~result.raised) =>
        LET j == Len(call.params)
        IN  /\ Len(parameters) = j + Len(BoundTerms)
            /\ \A i \in 1..j : parameters[i] = call.params[i]
            /\ \A i \in 1..Len(BoundTerms) :
                  /\ parameters[j + i].key = ParamName(j + i)
                  /\ parameters[j + i].val = BoundTerms[i].s

\* C2's case: a subquery with two different text terms rendered after the
\* outer statement bound a parameter
C2_Witness ==
    /\ op = "subquery"
    /\ call.pw
    /\ Len(call.params) >= 1
    /\ Len(BoundTerms) = 2
    /\ Len(call.args) = 2
    /\ BoundTerms[1] # BoundTerms[2]
    /\ Len(parameters) = Len(call.params) + 2

\* C3: a text that begins with to_timestamp or to_date, rendered without an
\* alias, is returned verbatim in Literal and in Parameterized mode on both
\* dialects, and the store is left as it was.
C3_RawPassThrough ==
    (DidRender /\ call.value.kind = "str" /\ IsPreRendered(call.value.s)
        /\ call.alias = <<>>) =>
        /\ result = Returned(call.value.s)
        /\ parameters = call.params

NULL_TEXT == <<"N", "U", "L", "L">>

\* The keyword as the library's literal rendering spells it
NULL_LOWER == <<"n", "u", "l", "l">>

\* C4: in Parameterized mode a render adds a binding if and only if the
\* value is an ordinary text; then it adds exactly one, holding the quoted
\* and escaped literal, and returns the placeholder of the new key; a number
\* or a null leaves the store as it was and is written inline (42, NULL; the
\* lower-case spelling is taken for the same keyword).
C4_BindsOnlyText ==
    (DidRender /\ call.pw /\ call.alias = <<>>) =>
        IF call.value.kind = "str" /\ ~IsPreRendered(call.value.s)
        THEN /\ parameters = Append(call.params,
                                    [key |-> ParamName(Len(call.params) + 1),
                                     val |-> QuoteLiteral(call.value.s)])
             /\ result = Returned(PlaceholderFor(Len(call.params) + 1))
        ELSE /\ parameters = call.params
             /\ call.value.kind = "int" => result = Returned(IntToStr(call.value.n))
             /\ call.value.kind = "none" =>
                    result \in {Returned(NULL_TEXT), Returned(NULL_LOWER)}

\* The positions of a date's digits, and of a clock's
DateDigits == {1, 2, 3, 4, 6, 7, 9, 10}

ClockDigits == {12, 13, 15, 16, 18, 19}

\* YYYY-MM-DD
ShapeDate(s) ==
    /\ Len(s) = 10
    /\ \A i \in DateDigits : IsDigit(s[i])
    /\ s[5] = "-" /\ s[8] = "-"

\* YYYY-MM-DD HH:MM:SS
ShapeTimestamp(s) ==
    /\ Len(s) = 19
    /\ ShapeDate(SubSeq(s, 1, 10))
    /\ \A i \in ClockDigits : IsDigit(s[i])
    /\ s[11] = " " /\ s[14] = ":" /\ s[17] = ":"

\* YYYY-MM-DD HH:MM:SS.<digits>
ShapeTimestampFraction(s) ==
    /\ Len(s) >= 21
    /\ ShapeTimestamp(SubSeq(s, 1, 19))
    /\ s[20] = "."
    /\ \A i \in 21..Len(s) : IsDigit(s[i])

\* The text the classification is about: the content of a quote-delimited
\* text, the text itself otherwise
Content(s) == IF Len(s) >= 1 /\ s[1] = Q /\ s[Len(s)] = Q THEN SubSeq(s, 2, Len(s) - 1) ELSE s

\* A returned text that is a constructor call
IsConstructorCall(r) ==
    ~r.raised /\ (IsPrefix(TO_DATE \o <<"(">>, r.s) \/ IsPrefix(TO_TIMESTAMP \o <<"(">>, r.s))

\* C5: with conversion enabled, conversion_column_value gives a text of
\* shape YYYY-MM-DD the to_date call, one of shape YYYY-MM-DD HH:MM:SS the
\* to_timestamp call with the seconds format and one of shape
\* YYYY-MM-DD HH:MM:SS.<digits> the to_timestamp call with the ff6 format,
\* a text of none of the three shapes gets no constructor call, and a
\* quote-delimited text is classified by its content.
C5_TemporalClassification ==
    (op = "convert" /\ call.flag /\ call.value.kind = "str") =>
        LET c == Content(call.value.s)
        IN  /\ ShapeDate(c) => result = Returned(ConstructorCall(TO_DATE, c, FMT_DATE))
            /\ ShapeTimestamp(c) => result = Returned(ConstructorCall(TO_TIMESTAMP, c, FMT_TS))
            /\ ShapeTimestampFraction(c) =>
                  result = Returned(ConstructorCall(TO_TIMESTAMP, c, FMT_TS6))
            /\ ~(ShapeDate(c) \/ ShapeTimestamp(c) \/ ShapeTimestampFraction(c)) =>
                  ~IsConstructorCall(result)

\* C6: in Literal mode a text over {a, '}, with quotes at any positions, is
\* rendered (without alias, on either dialect) as the text wrapped once in
\* single quotes with every quote inside doubled, and reading that literal
\* back gives the text.
C6_QuoteRoundTrip ==
    (DidRender /\ renders = 1 /\ ~call.pw /\ call.alias = <<>>
        /\ call.value.kind = "str" /\ call.value.s \in QuoteTexts) =>
        /\ result = Returned(QuoteLiteral(call.value.s))
        /\ Unquote(result.s) = call.value.s

\* C7: a value constructed as null renders as the null keyword in both modes
\* on both dialects (NULL; the lower-case spelling is taken for the same
\* keyword), and rendering it adds no binding.
C7_NullRendersNull ==
    (DidRender /\ init_value.kind = "none" /\ alias = <<>>) =>
        /\ parameters = <<>>
        /\ result \in {Returned(NULL_TEXT), Returned(NULL_LOWER)}

\* C8: the text rendered for a value with an alias is the text rendered for
\* it without one, followed by the alias formatting, on every path.
C8_AliasOnEveryPath ==
    (DidRender /\ call.alias # <<>> /\ ~result.raised) =>
        result.s = ValueWrapper_get_sql(call.value, <<>>, call.qc, call.pw, call.params,
                                        is_oracledb).s
                       \o <<" ">> \o call.qc \o call.alias[1] \o call.qc

\* C9: conversion_column_value returns a text and never raises, for null,
\* numbers and every text, the empty one and those of quotes only included.
C9_ConversionTotal == op = "convert" => ~result.raised

\* C10: get_sql never changes the wrapper's value, and a Literal-mode render
\* repeated with the same quote_char returns what the first one returned.
C10_ValueImmutable ==
    /\ value = init_value
    /\ (DidRender /\ ~call.pw) => result = first_sql[call.qc][1]

====
